---- MODULE Spec2Model ----
(***************************************************************************)
(* Model of the three LangGraph agents of this repository:                 *)
(*   "add"  : src/src/langgraph.ts          (add-only agent, own toolNode) *)
(*   "calc" : src/src/calculator.ts:1-84    (add/sqrt, prebuilt ToolNode)  *)
(*   "crop" : src/src/calculator.ts:86-467  (image crop with approver)     *)
(* The session state is the Annotation.Root record; every node function    *)
(* returns a partial update that the executor merges field by field with   *)
(* the field's reducer; routers pick the next node from the merged state.  *)
(*                                                                         *)
(* Strings are sequences of text segments (so that startsWith and template *)
(* interpolation are computed), nullable values are sequences of length    *)
(* 0 (null) or 1.                                                          *)
(***************************************************************************)
EXTENDS Integers, Sequences, FiniteSets, TLC

VARIABLES
    graph,                \* which of the three scripts runs
    messages,             \* state.messages
    sourceImageDataUri,   \* state.sourceImageDataUri   (crop graph)
    croppedImageDataUri,  \* state.croppedImageDataUri  (crop graph)
    approval,             \* state.approval             (crop graph)
    pc,                   \* the node or router the executor runs next
    trace,                \* the nodes, routers and script steps run so far
    appended,             \* initial messages followed by every update's messages
    llmCalls,             \* number of llmCall steps started
    modelCalls,           \* number of invocations of the hosted model
    nextId,               \* next tool-call id the provider hands out
    lastDirective,        \* system directive of the latest llmCall
    outputFile            \* content of cropped-output.png, Null while unwritten

vars == <<graph, messages, sourceImageDataUri, croppedImageDataUri, approval,
          pc, trace, appended, llmCalls, modelCalls, nextId, lastDirective,
          outputFile>>

(***************************************************************************)
(* Bounds                                                                  *)
(***************************************************************************)
MaxLLMCalls == 3   \* llmCall steps per run
MaxToolCalls == 2  \* tool-call requests carried by one assistant reply
AssetSize == 2     \* width and height of the input image, in pixels

(***************************************************************************)
(* Values                                                                  *)
(***************************************************************************)
Null == <<>>
Some(v) == <<v>>

END == "END"
ERROR == "ERROR"   \* the node threw: agent.invoke rejects

DataImage == "data:image/"

\* getImageData: `data:image/${format};base64,${buffer.toString("base64")}`
getImageData(format, bytes) == <<DataImage, format, ";base64,">> \o bytes

\* the asset the script reads: ../assets/kettle.webp
Kettle == getImageData("webp", <<"kettle">>)

\* s.split(",")[1] of a data URI: what follows ";base64,"
Base64Data(uri) == SubSeq(uri, 4, Len(uri))

\* String.prototype.includes on segmented strings
Contains(s, f) ==
    \E i \in 0..(Len(s) - Len(f)) : SubSeq(s, i + 1, i + Len(f)) = f

\* `${value}` of a nullable string
Interpolate(opt) == IF opt = Null THEN <<"null">> ELSE opt[1]

\* String.prototype.startsWith on a segmented string
startsWith(content, prefix) == Len(content) > 0 /\ content[1] = prefix

\* JavaScript truthiness of a nullable string
Truthy(opt) == opt # Null /\ opt[1] # <<>>

Pending == [status |-> "pending", feedback |-> Null]

HumanMessage(content, images) ==
    [type |-> "human", content |-> content, images |-> images,
     tool_calls |-> <<>>, tool_call_id |-> 0, name |-> ""]

AIMessage(content, calls) ==
    [type |-> "ai", content |-> content, images |-> <<>>,
     tool_calls |-> calls, tool_call_id |-> 0, name |-> ""]

ToolMessage(content, id, name) ==
    [type |-> "tool", content |-> content, images |-> <<>>,
     tool_calls |-> <<>>, tool_call_id |-> id, name |-> name]

isAIMessage(m) == m.type = "ai"

\* messages.at(-1): Null on an empty log
LastMessage(msgs) == IF Len(msgs) = 0 THEN Null ELSE Some(msgs[Len(msgs)])

(***************************************************************************)
(* Session state, reducers and the merge of a partial update               *)
(***************************************************************************)
State ==
    [messages |-> messages,
     sourceImageDataUri |-> sourceImageDataUri,
     croppedImageDataUri |-> croppedImageDataUri,
     approval |-> approval]

\* a reducer that replaces the log by the update
MessagesReducer_replace(left, right) == right

\* reducer: (left, right) => left.concat(right)
MessagesReducer(left, right) == left \o right

\* reducer: (_, right) => right ?? null
UriReducer(left, right) == IF right = Null THEN Null ELSE right

\* reducer: (_, right) => right ?? { status: "pending", feedback: null }
ApprovalReducer(left, right) == IF right = Null THEN Pending ELSE right

Reducer(field, left, right) ==
    CASE field = "messages" -> MessagesReducer(left, right)
      [] field = "sourceImageDataUri" -> UriReducer(left, right)
      [] field = "croppedImageDataUri" -> UriReducer(left, right)
      [] field = "approval" -> ApprovalReducer(left, right)

\* the executor merges the keys the node returned, each with its reducer
Merge(s, update) ==
    [f \in DOMAIN s |->
        IF f \in DOMAIN update THEN Reducer(f, s[f], update[f]) ELSE s[f]]

\* a node that threw returns nothing
NoUpdate == [messages |-> <<>>]
Threw == [threw |-> TRUE, update |-> NoUpdate]
Returned(u) == [threw |-> FALSE, update |-> u]

UpdateMessages(u) == IF "messages" \in DOMAIN u THEN u.messages ELSE <<>>

(***************************************************************************)
(* Tools                                                                   *)
(***************************************************************************)
\* what tool.invoke does: [threw, content]
ToolThrew == [threw |-> TRUE, content |-> <<>>]
ToolReturned(c) == [threw |-> FALSE, content |-> c]

\* z.object({ a: z.number(), b: z.number() })
AddSchema(args) ==
    /\ "a" \in DOMAIN args /\ "b" \in DOMAIN args
    /\ args.a \in Int /\ args.b \in Int

add(args) == IF AddSchema(args) THEN ToolReturned(<<ToString(args.a + args.b)>>)
             ELSE ToolThrew

\* z.object({ value: z.number() })
SqrtSchema(args) == "value" \in DOMAIN args /\ args.value \in Int

\* Math.sqrt on the perfect squares the model is given; NaN below zero
MathSqrt(v) ==
    IF v >= 0 /\ \E r \in 0..v : r * r = v
    THEN ToString(CHOOSE r \in 0..v : r * r = v)
    ELSE "NaN"

sqrt(args) == IF SqrtSchema(args) THEN ToolReturned(<<MathSqrt(args.value)>>)
              ELSE ToolThrew

\* cropArea: x, y integers >= 0; width, height positive integers
CropSchema(args) ==
    /\ "cropArea" \in DOMAIN args
    /\ args.cropArea.x \in Int /\ args.cropArea.x >= 0
    /\ args.cropArea.y \in Int /\ args.cropArea.y >= 0
    /\ args.cropArea.width \in Int /\ args.cropArea.width > 0
    /\ args.cropArea.height \in Int /\ args.cropArea.height > 0

\* sharp(buffer).extract(area): fails on an area outside the image
SharpExtractFails(area) ==
    \/ area.x + area.width > AssetSize
    \/ area.y + area.height > AssetSize

SharpExtract(data, area) ==
    <<"crop", ToString(area.x), ToString(area.y),
      ToString(area.width), ToString(area.height)>> \o data

\* cropImage, with the state the tool node passes in config.configurable
cropImage(args, s) ==
    IF ~CropSchema(args) THEN ToolThrew
    ELSE IF ~Truthy(s.sourceImageDataUri) THEN ToolThrew
    ELSE IF SharpExtractFails(args.cropArea) THEN ToolThrew
    ELSE ToolReturned(
            getImageData(s.sourceImageDataUri[1][2],
                SharpExtract(Base64Data(s.sourceImageDataUri[1]),
                             args.cropArea)))

\* the tool of a registry by name
InvokeTool(name, args, s) ==
    CASE name = "add" -> add(args)
      [] name = "sqrt" -> sqrt(args)
      [] name = "cropImage" -> cropImage(args, s)

\* the prebuilt ToolNode over a registry: one tool-result entry per request
\* of the latest assistant entry, in request order; a request that names no
\* registered tool, or whose tool throws, yields an entry describing the
\* failure instead of aborting the run
ToolError(call) ==
    ToolMessage(<<"Error: ", call.name, "\n Please fix your mistakes.">>,
                call.id, call.name)

runTool(registry, call, s) ==
    IF call.name \notin registry THEN ToolError(call)
    ELSE LET output == InvokeTool(call.name, call.args, s) IN
         IF output.threw THEN ToolError(call)
         ELSE ToolMessage(output.content, call.id, call.name)

ToolNode(registry, s) ==
    LET lastMessage == LastMessage(s.messages) IN
    IF lastMessage = Null \/ ~isAIMessage(lastMessage[1])
    THEN Returned([messages |-> <<>>])
    ELSE LET calls == lastMessage[1].tool_calls IN
         Returned([messages |->
                     [i \in 1..Len(calls) |-> runTool(registry, calls[i], s)]])

(***************************************************************************)
(* The hosted model: what a reply can be                                   *)
(***************************************************************************)
AddArgs == {[a |-> 3, b |-> 4], [a |-> 3]}
SqrtArgs == {[value |-> 16], [a |-> 16]}
CropAreaOf(w) == [cropArea |-> [x |-> 0, y |-> 0, width |-> w, height |-> w]]
CropArgs == {CropAreaOf(1), CropAreaOf(AssetSize), CropAreaOf(0)}

\* the model answers, or the invocation fails (transport, auth, rate limit)
ModelFailure == [failed |-> TRUE]
Answer(v) == [failed |-> FALSE, value |-> v]

\* name and arguments of one tool-call request the model may issue
Requests(g) ==
    CASE g = "add" ->
            {[name |-> "add", args |-> a] : a \in AddArgs}
            \cup {[name |-> "multiply", args |-> [a |-> 3, b |-> 4]]}
      [] g = "calc" ->
            {[name |-> "add", args |-> [a |-> 9, b |-> 7]]}
            \cup {[name |-> "sqrt", args |-> a] : a \in SqrtArgs}
            \cup {[name |-> "multiply", args |-> [a |-> 3, b |-> 4]]}
      [] g = "crop" ->
            {[name |-> "cropImage", args |-> a] : a \in CropArgs}

\* the provider gives every request of a reply a fresh id
ToolCalls(reqs, firstId) ==
    [i \in 1..Len(reqs) |->
        [name |-> reqs[i].name, args |-> reqs[i].args, id |-> firstId + i - 1]]

RequestSeqs(g) ==
    UNION {[1..n -> Requests(g)] : n \in 0..MaxToolCalls}

\* the assistant entry for a sequence of requests
Reply(reqs, firstId) ==
    AIMessage(IF Len(reqs) = 0 THEN <<"answer">> ELSE <<>>,
              ToolCalls(reqs, firstId))

(***************************************************************************)
(* add-only agent (src/src/langgraph.ts)                                   *)
(***************************************************************************)
AddDirective ==
    <<"You are a helpful assistant tasked with performing arithmetic on a set of inputs.">>

\* llmNode: { messages: [response] }, or the model call throws
Add_llmNode(s, response) ==
    IF response.failed THEN Threw
    ELSE Returned([messages |-> <<response.value>>])

\* toolsByName[toolCall.name]
Add_toolsByName == {"add"}

\* a loop that stops after the first request
RECURSIVE Add_toolLoop_first(_, _, _)
Add_toolLoop_first(calls, i, result) ==
    IF i > Len(calls) \/ i > 1 THEN Returned([messages |-> result])
    ELSE IF calls[i].name \notin {"add"} THEN Threw
    ELSE LET observation == add(calls[i].args) IN
         IF observation.threw THEN Threw
         ELSE Add_toolLoop_first(calls, i + 1,
                  Append(result, ToolMessage(observation.content,
                                             calls[i].id, calls[i].name)))

\* a loop that hands over the results so far when a tool fails
RECURSIVE Add_toolLoop_partial(_, _, _)
Add_toolLoop_partial(calls, i, result) ==
    IF i > Len(calls) THEN Returned([messages |-> result])
    ELSE IF calls[i].name \notin {"add"}
    THEN [threw |-> TRUE, update |-> [messages |-> result]]
    ELSE LET observation == add(calls[i].args) IN
         IF observation.threw
         THEN [threw |-> TRUE, update |-> [messages |-> result]]
         ELSE Add_toolLoop_partial(calls, i + 1,
                  Append(result, ToolMessage(observation.content,
                                             calls[i].id, calls[i].name)))

\* the for loop of toolNode over the calls i..n, with the results so far
RECURSIVE Add_toolLoop(_, _, _)
Add_toolLoop(calls, i, result) ==
    IF i > Len(calls) THEN Returned([messages |-> result])
    ELSE IF calls[i].name \notin Add_toolsByName THEN Threw
    ELSE LET observation == add(calls[i].args) IN
         IF observation.threw THEN Threw
         ELSE Add_toolLoop(calls, i + 1,
                  Append(result, ToolMessage(observation.content,
                                             calls[i].id, calls[i].name)))

Add_toolNode(s) ==
    LET lastMessage == LastMessage(s.messages) IN
    IF lastMessage = Null \/ ~isAIMessage(lastMessage[1])
    THEN Returned([messages |-> <<>>])
    ELSE Add_toolLoop(lastMessage[1].tool_calls, 1, <<>>)

\* a router that sends every assistant entry to the tool node
Add_shouldContinue_always(s) ==
    LET lastMessage == LastMessage(s.messages) IN
    IF lastMessage = Null \/ ~isAIMessage(lastMessage[1]) THEN END
    ELSE "toolNode"

Add_shouldContinue(s) ==
    LET lastMessage == LastMessage(s.messages) IN
    IF lastMessage = Null \/ ~isAIMessage(lastMessage[1]) THEN END
    ELSE IF Len(lastMessage[1].tool_calls) > 0 THEN "toolNode"
    ELSE END

(***************************************************************************)
(* add/sqrt calculator (src/src/calculator.ts:1-84)                        *)
(***************************************************************************)
Calc_tools == {"add", "sqrt"}

Calc_llmNode(s, response) ==
    IF response.failed THEN Threw
    ELSE Returned([messages |-> <<response.value>>])

Calc_toolNode(s) == ToolNode(Calc_tools, s)

\* a router that ends the run on every assistant entry
Calc_shouldContinue_stop(s) == END

Calc_shouldContinue(s) ==
    LET lastMessage == LastMessage(s.messages) IN
    IF lastMessage = Null \/ ~isAIMessage(lastMessage[1]) THEN END
    ELSE IF Len(lastMessage[1].tool_calls) > 0 THEN "toolNode"
    ELSE END

(***************************************************************************)
(* image-crop agent (src/src/calculator.ts:86-467)                         *)
(***************************************************************************)
Crop_tools == {"cropImage"}

\* the scan of llmNode over the image_url parts of one message
RECURSIVE Crop_scanParts(_, _, _)
Crop_scanParts(parts, i, newSource) ==
    IF i > Len(parts) THEN newSource
    ELSE LET imageUrl == parts[i] IN
         Crop_scanParts(parts, i + 1,
            IF imageUrl # <<>>
               /\ (~Truthy(newSource) \/ Len(imageUrl) > Len(newSource[1]))
            THEN Some(imageUrl) ELSE newSource)

\* the scan of llmNode over state.messages
RECURSIVE Crop_scanMessages(_, _, _)
Crop_scanMessages(msgs, i, newSource) ==
    IF i > Len(msgs) THEN newSource
    ELSE Crop_scanMessages(msgs, i + 1,
            Crop_scanParts(msgs[i].images, 1, newSource))

Crop_basePrompt ==
    <<"You are a helpful assistant that can analyze images and crop them based on user requests. Follow this workflow: ...">>

\* a directive that never quotes the rejection feedback
Crop_systemPrompt_plain(s) == Crop_basePrompt

Crop_systemPrompt(s) ==
    Crop_basePrompt \o
    (IF Truthy(s.approval.feedback)
     THEN <<"\n\nIMPORTANT: Previous crop attempt was rejected with this feedback:\n\"">>
          \o s.approval.feedback[1]
          \o <<"\"\nPlease adjust your crop parameters accordingly.">>
     ELSE <<>>)

\* a model-call node that keeps the approval of the previous attempt
Crop_llmNode_noReset(s, response) ==
    LET newSourceImageDataUri ==
            Crop_scanMessages(s.messages, 1, s.sourceImageDataUri) IN
    IF response.failed THEN Threw
    ELSE Returned([messages |-> <<response.value>>,
                   sourceImageDataUri |-> newSourceImageDataUri])

\* a model-call node that also drops the crop of the previous attempt
Crop_llmNode_clearsCrop(s, response) ==
    LET newSourceImageDataUri ==
            Crop_scanMessages(s.messages, 1, s.sourceImageDataUri) IN
    IF response.failed THEN Threw
    ELSE Returned([messages |-> <<response.value>>,
                   sourceImageDataUri |-> newSourceImageDataUri,
                   croppedImageDataUri |-> Null,
                   approval |-> [status |-> "pending", feedback |-> Null]])

Crop_llmNode(s, response) ==
    LET newSourceImageDataUri ==
            Crop_scanMessages(s.messages, 1, s.sourceImageDataUri) IN
    IF response.failed THEN Threw
    ELSE Returned([messages |-> <<response.value>>,
                   sourceImageDataUri |-> newSourceImageDataUri,
                   approval |-> [status |-> "pending", feedback |-> Null]])

NoCropFeedback == <<"No cropped image was produced">>

\* an approver without the guard on the two images
Crop_approverNode_noGuard(s, response) ==
    IF response.failed
    THEN [threw |-> TRUE, invoked |-> TRUE, update |-> [messages |-> <<>>]]
    ELSE [threw |-> FALSE, invoked |-> TRUE,
          update |-> [approval |->
                        [status |-> IF response.value.approved
                                    THEN "approved" ELSE "rejected",
                         feedback |-> Some(response.value.feedback)]]]

\* an approver that leaves the verdict open when an image is missing
Crop_approverNode_pending(s, response) ==
    IF ~Truthy(s.croppedImageDataUri) \/ ~Truthy(s.sourceImageDataUri)
    THEN [threw |-> FALSE, invoked |-> FALSE,
          update |-> [approval |-> [status |-> "pending", feedback |-> Null]]]
    ELSE IF response.failed
    THEN [threw |-> TRUE, invoked |-> TRUE, update |-> [messages |-> <<>>]]
    ELSE [threw |-> FALSE, invoked |-> TRUE,
          update |-> [approval |->
                        [status |-> IF response.value.approved
                                    THEN "approved" ELSE "rejected",
                         feedback |-> Some(response.value.feedback)]]]

\* an approver that only short-circuits on a missing source image
Crop_approverNode_sourceOnly(s, response) ==
    IF ~Truthy(s.sourceImageDataUri)
    THEN [threw |-> FALSE, invoked |-> FALSE,
          update |-> [approval |-> [status |-> "rejected",
                                    feedback |-> Some(<<"No cropped image was produced">>)]]]
    ELSE IF response.failed
    THEN [threw |-> TRUE, invoked |-> TRUE, update |-> [messages |-> <<>>]]
    ELSE [threw |-> FALSE, invoked |-> TRUE,
          update |-> [approval |->
                        [status |-> IF response.value.approved
                                    THEN "approved" ELSE "rejected",
                         feedback |-> Some(response.value.feedback)]]]

\* approverNode: [threw, update, invoked]; invoked tells whether the model ran
Crop_approverNode(s, response) ==
    IF ~Truthy(s.croppedImageDataUri) \/ ~Truthy(s.sourceImageDataUri)
    THEN [threw |-> FALSE, invoked |-> FALSE,
          update |-> [approval |-> [status |-> "rejected",
                                    feedback |-> Some(NoCropFeedback)]]]
    ELSE IF response.failed
    THEN [threw |-> TRUE, invoked |-> TRUE, update |-> NoUpdate]
    ELSE [threw |-> FALSE, invoked |-> TRUE,
          update |-> [approval |->
                        [status |-> IF response.value.approved
                                    THEN "approved" ELSE "rejected",
                         feedback |-> Some(response.value.feedback)]]]

\* a scan without the break: the last data URI wins
RECURSIVE Crop_scanResults_last(_, _, _)
Crop_scanResults_last(results, i, newCropped) ==
    IF i > Len(results) THEN newCropped
    ELSE Crop_scanResults_last(results, i + 1,
            IF startsWith(results[i].content, DataImage)
            THEN Some(results[i].content) ELSE newCropped)

\* the scan of toolNode over the tool results for a data URI
RECURSIVE Crop_scanResults(_, _, _)
Crop_scanResults(results, i, newCropped) ==
    IF i > Len(results) THEN newCropped
    ELSE IF startsWith(results[i].content, DataImage)
    THEN Some(results[i].content)
    ELSE Crop_scanResults(results, i + 1, newCropped)

Crop_toolNode(s) ==
    LET toolResult == ToolNode(Crop_tools, s) IN
    IF toolResult.threw THEN Threw
    ELSE Returned([messages |-> toolResult.update.messages,
                   croppedImageDataUri |->
                       Crop_scanResults(toolResult.update.messages, 1,
                                        s.croppedImageDataUri)])

Crop_routeAfterLLM(s) ==
    LET lastMessage == LastMessage(s.messages) IN
    IF lastMessage = Null \/ ~isAIMessage(lastMessage[1]) THEN END
    ELSE IF Len(lastMessage[1].tool_calls) > 0 THEN "toolNode"
    ELSE "approver"

Crop_feedbackText(feedback) ==
    <<"The crop was rejected. Feedback: ">> \o Interpolate(feedback)
    \o <<"\n\nPlease try again with adjusted crop parameters.">>

Crop_addRejectionFeedback(s) ==
    Returned([messages |->
                <<HumanMessage(Crop_feedbackText(s.approval.feedback), <<>>)>>])

\* a router that gives up after the second rejection
Crop_routeAfterApprover_bounded(s) ==
    IF s.approval.status = "approved" THEN END
    ELSE IF s.approval.status = "rejected"
    THEN IF Cardinality({i \in 1..Len(s.messages) :
                            s.messages[i].type = "human"}) > 2
         THEN END ELSE "addRejectionFeedback"
    ELSE END

\* a router that retries on every status but approved
Crop_routeAfterApprover_retry(s) ==
    IF s.approval.status = "approved" THEN END
    ELSE "addRejectionFeedback"

Crop_routeAfterApprover(s) ==
    IF s.approval.status = "approved" THEN END
    ELSE IF s.approval.status = "rejected" THEN "addRejectionFeedback"
    ELSE END

\* what the structured-output invocation of the approver can return
ApprovalResponses ==
    {[approved |-> TRUE, feedback |-> <<"well framed">>],
     [approved |-> FALSE, feedback |-> <<"subject cut off">>],
     [approved |-> FALSE, feedback |-> <<>>]}

(***************************************************************************)
(* The executor: run a node, merge its update, move on                     *)
(***************************************************************************)
\* merge the outcome r of node `node` and continue at `next`
Step(node, r, next) ==
    LET merged == Merge(State, r.update) IN
    /\ messages' = merged.messages
    /\ sourceImageDataUri' = merged.sourceImageDataUri
    /\ croppedImageDataUri' = merged.croppedImageDataUri
    /\ approval' = merged.approval
    /\ appended' = appended \o UpdateMessages(r.update)
    /\ trace' = Append(trace, node)
    /\ pc' = IF r.threw THEN ERROR ELSE next
    /\ UNCHANGED <<graph, outputFile>>

\* a router runs: it returns the next node and writes nothing
Route(router, next) ==
    /\ pc' = next
    /\ trace' = Append(trace, router)
    /\ UNCHANGED <<graph, messages, sourceImageDataUri, croppedImageDataUri,
                   approval, appended, llmCalls, modelCalls, nextId,
                   lastDirective, outputFile>>

\* llmCall: the model is invoked once; it replies or the invocation fails
Add_llmCall ==
    /\ graph = "add" /\ pc = "llmCall" /\ llmCalls < MaxLLMCalls
    /\ llmCalls' = llmCalls + 1
    /\ modelCalls' = modelCalls + 1
    /\ lastDirective' = AddDirective
    /\ \/ \E reqs \in RequestSeqs(graph) :
             /\ Step("llmCall",
                     Add_llmNode(State, Answer(Reply(reqs, nextId))),
                     "shouldContinue")
             /\ nextId' = nextId + Len(reqs)
       \/ /\ Step("llmCall", Add_llmNode(State, ModelFailure),
                  "shouldContinue")
          /\ UNCHANGED nextId

Add_routeLLM ==
    /\ graph = "add" /\ pc = "shouldContinue"
    /\ Route("shouldContinue", Add_shouldContinue(State))

Add_toolStep ==
    /\ graph = "add" /\ pc = "toolNode"
    /\ Step("toolNode", Add_toolNode(State), "llmCall")
    /\ UNCHANGED <<llmCalls, modelCalls, nextId, lastDirective>>

Calc_llmCall ==
    /\ graph = "calc" /\ pc = "llmCall" /\ llmCalls < MaxLLMCalls
    /\ llmCalls' = llmCalls + 1
    /\ modelCalls' = modelCalls + 1
    /\ lastDirective' = AddDirective
    /\ \/ \E reqs \in RequestSeqs(graph) :
             /\ Step("llmCall",
                     Calc_llmNode(State, Answer(Reply(reqs, nextId))),
                     "shouldContinue")
             /\ nextId' = nextId + Len(reqs)
       \/ /\ Step("llmCall", Calc_llmNode(State, ModelFailure),
                  "shouldContinue")
          /\ UNCHANGED nextId

Calc_routeLLM ==
    /\ graph = "calc" /\ pc = "shouldContinue"
    /\ Route("shouldContinue", Calc_shouldContinue(State))

Calc_toolStep ==
    /\ graph = "calc" /\ pc = "toolNode"
    /\ Step("toolNode", Calc_toolNode(State), "llmCall")
    /\ UNCHANGED <<llmCalls, modelCalls, nextId, lastDirective>>

Crop_llmCall ==
    /\ graph = "crop" /\ pc = "llmCall" /\ llmCalls < MaxLLMCalls
    /\ llmCalls' = llmCalls + 1
    /\ modelCalls' = modelCalls + 1
    /\ lastDirective' = Crop_systemPrompt(State)
    /\ \/ \E reqs \in RequestSeqs(graph) :
             /\ Step("llmCall",
                     Crop_llmNode(State, Answer(Reply(reqs, nextId))),
                     "routeAfterLLM")
             /\ nextId' = nextId + Len(reqs)
       \/ /\ Step("llmCall", Crop_llmNode(State, ModelFailure),
                  "routeAfterLLM")
          /\ UNCHANGED nextId

Crop_routeLLM ==
    /\ graph = "crop" /\ pc = "routeAfterLLM"
    /\ Route("routeAfterLLM", Crop_routeAfterLLM(State))

Crop_toolStep ==
    /\ graph = "crop" /\ pc = "toolNode"
    /\ Step("toolNode", Crop_toolNode(State), "approver")
    /\ UNCHANGED <<llmCalls, modelCalls, nextId, lastDirective>>

Crop_approver ==
    /\ graph = "crop" /\ pc = "approver"
    /\ \E response \in {Answer(v) : v \in ApprovalResponses}
                       \cup {ModelFailure} :
          LET r == Crop_approverNode(State, response) IN
          /\ Step("approver", r, "routeAfterApprover")
          /\ modelCalls' = modelCalls + (IF r.invoked THEN 1 ELSE 0)
    /\ UNCHANGED <<llmCalls, nextId, lastDirective>>

Crop_routeApprover ==
    /\ graph = "crop" /\ pc = "routeAfterApprover"
    /\ Route("routeAfterApprover", Crop_routeAfterApprover(State))

Crop_feedbackStep ==
    /\ graph = "crop" /\ pc = "addRejectionFeedback"
    /\ Step("addRejectionFeedback", Crop_addRejectionFeedback(State),
            "llmCall")
    /\ UNCHANGED <<llmCalls, modelCalls, nextId, lastDirective>>

\* a script that saves every cropped image, whatever the approval
Crop_output_anyStatus(result) ==
    IF Truthy(result.croppedImageDataUri)
    THEN Some(Base64Data(result.croppedImageDataUri[1]))
    ELSE Null

\* what the script writes to cropped-output.png once agent.invoke returned
Crop_output(result) ==
    IF Truthy(result.croppedImageDataUri) /\ result.approval.status = "approved"
    THEN Some(Base64Data(result.croppedImageDataUri[1]))
    ELSE Null

\* the end of the image-crop script: report, and save the approved crop
Crop_saveResult ==
    /\ graph = "crop" /\ pc = END
    /\ pc' = "exit"
    /\ outputFile' = Crop_output(State)
    /\ trace' = Append(trace, "result")
    /\ UNCHANGED <<graph, messages, sourceImageDataUri, croppedImageDataUri,
                   approval, appended, llmCalls, modelCalls, nextId,
                   lastDirective>>

(***************************************************************************)
(* Initial state: agent.invoke({ messages: [HumanMessage] })               *)
(***************************************************************************)
InitialMessages(g) ==
    CASE g = "add" -> {<<HumanMessage(<<"Add 3 and 4.">>, <<>>)>>}
      [] g = "calc" -> {<<HumanMessage(<<"Calc sqrt(9 + 7)">>, <<>>)>>}
      [] g = "crop" ->
            {<<HumanMessage(<<"This is a product image. Crop it to a 9:16 ratio so that the product is not cropped. ">>,
                            images)>> : images \in {<<Kettle>>, <<>>}}

Init ==
    /\ graph \in {"add", "calc", "crop"}
    /\ messages \in InitialMessages(graph)
    /\ sourceImageDataUri = Null
    /\ croppedImageDataUri = Null
    /\ approval = Pending
    /\ pc = "llmCall"
    /\ trace = <<>>
    /\ appended = messages
    /\ llmCalls = 0
    /\ modelCalls = 0
    /\ nextId = 1
    /\ lastDirective = <<>>
    /\ outputFile = Null

Next ==
    \/ Add_llmCall
    \/ Add_routeLLM
    \/ Add_toolStep
    \/ Calc_llmCall
    \/ Calc_routeLLM
    \/ Calc_toolStep
    \/ Crop_llmCall
    \/ Crop_routeLLM
    \/ Crop_toolStep
    \/ Crop_approver
    \/ Crop_routeApprover
    \/ Crop_feedbackStep
    \/ Crop_saveResult

Spec == Init /\ [][Next]_vars

(***************************************************************************)
(* The routers as functions of an arbitrary session state: the executor    *)
(* is started at a router on any state of a bounded set.                   *)
(***************************************************************************)
ProbeEntries ==
    {HumanMessage(<<"hello">>, <<>>),
     ToolMessage(<<"7">>, 1, "add"),
     AIMessage(<<"answer">>, <<>>),
     AIMessage(<<>>, <<[name |-> "add", args |-> [a |-> 3, b |-> 4], id |-> 1]>>)}

MaxProbeLen == 2

ProbeMessages == UNION {[1..n -> ProbeEntries] : n \in 0..MaxProbeLen}

ProbeApprovals ==
    {Pending,
     [status |-> "approved", feedback |-> Some(<<"well framed">>)],
     [status |-> "rejected", feedback |-> Some(<<"subject cut off">>)]}

ProbeCrop ==
    getImageData("webp", SharpExtract(Base64Data(Kettle), CropAreaOf(1).cropArea))

RouterInit ==
    /\ graph \in {"add", "calc", "crop"}
    /\ messages \in ProbeMessages
    /\ sourceImageDataUri \in IF graph = "crop" THEN {Null, Some(Kettle)} ELSE {Null}
    /\ croppedImageDataUri \in IF graph = "crop" THEN {Null, Some(ProbeCrop)}
                              ELSE {Null}
    /\ approval \in IF graph = "crop" THEN ProbeApprovals ELSE {Pending}
    /\ pc \in IF graph = "crop" THEN {"routeAfterLLM", "routeAfterApprover"}
              ELSE {"shouldContinue"}
    /\ trace = <<>>
    /\ appended = messages
    /\ llmCalls = MaxLLMCalls - 1
    /\ modelCalls = 0
    /\ nextId = 2
    /\ lastDirective = <<>>
    /\ outputFile = Null

RouterSpec == RouterInit /\ [][Next]_vars

(***************************************************************************)
(* Properties                                                              *)
(***************************************************************************)
LastStep == IF trace = <<>> THEN "START" ELSE trace[Len(trace)]

IsPrefix(a, b) == Len(a) <= Len(b) /\ SubSeq(b, 1, Len(a)) = a

HasToolCalls(opt) ==
    opt # Null /\ isAIMessage(opt[1]) /\ Len(opt[1].tool_calls) >= 1

\* C1: in every run of the three graphs messages is the initial messages
\* followed by the messages of every step's update in step order, and the
\* messages of an earlier state is a prefix of the messages of a later one.
C1_MessagesAppendOnly ==
    /\ [](messages = appended)
    /\ [][IsPrefix(messages, messages')]_vars

C1_Witness ==
    /\ pc = END /\ Len(messages) >= 4
    /\ \E i \in 1..Len(messages) : messages[i].type = "tool"

\* C2: the post-model router returns END on an empty log or a latest entry
\* that is no assistant entry, toolNode on an assistant entry with tool
\* calls, and otherwise END (shouldContinue) or approver (routeAfterLLM);
\* without an evaluation stage the tool node never runs on an assistant
\* entry without tool calls.
C2_Decision ==
    LET lastMessage == LastMessage(messages) IN
    IF lastMessage = Null \/ lastMessage[1].type # "ai" THEN END
    ELSE IF Len(lastMessage[1].tool_calls) >= 1 THEN "toolNode"
    ELSE IF graph = "crop" THEN "approver" ELSE END

C2_PostModelRouter ==
    /\ LastStep \in {"shouldContinue", "routeAfterLLM"} => pc = C2_Decision
    /\ graph \in {"add", "calc"} /\ pc = "toolNode"
            => HasToolCalls(LastMessage(messages))

C2_Witness ==
    /\ LastStep = "shouldContinue" /\ pc = END
    /\ messages # <<>> /\ messages[Len(messages)].type = "ai"
    /\ messages[Len(messages)].tool_calls = <<>>

\* C3: routeAfterApprover returns END on approved, addRejectionFeedback on
\* rejected and END on any other status; it never fails and never returns
\* another node.
C3_PostEvaluationRouter ==
    LastStep = "routeAfterApprover" =>
        /\ pc = (CASE approval.status = "approved" -> END
                   [] approval.status = "rejected" -> "addRejectionFeedback"
                   [] OTHER -> END)
        /\ pc \in {END, "addRejectionFeedback"}

C3_Witness ==
    LastStep = "routeAfterApprover" /\ approval.status = "pending" /\ pc = END


\* the tool-result entries of a log that answer the request id
ResultsFor(msgs, id) ==
    {j \in 1..Len(msgs) : msgs[j].type = "tool" /\ msgs[j].tool_call_id = id}

\* C4: whenever llmCall starts, every tool-call request of every assistant
\* entry in messages is answered by exactly one tool-result entry with its
\* id, placed after the assistant entry, and every tool-result entry
\* answers a request.
C4_RoundTrip ==
    pc = "llmCall" =>
        /\ \A i \in 1..Len(messages) :
              \A k \in 1..Len(messages[i].tool_calls) :
                 LET results == ResultsFor(messages, messages[i].tool_calls[k].id) IN
                 /\ Cardinality(results) = 1
                 /\ \A j \in results : j > i
        /\ \A j \in 1..Len(messages) :
              messages[j].type = "tool" =>
                 \E i \in 1..Len(messages) :
                    \E k \in 1..Len(messages[i].tool_calls) :
                       messages[i].tool_calls[k].id = messages[j].tool_call_id

C4_Witness ==
    /\ pc = "llmCall"
    /\ \E i \in 1..Len(messages) : Len(messages[i].tool_calls) = 2
    /\ \E i, j \in 1..Len(messages) :
          i # j /\ messages[i].tool_calls # <<>> /\ messages[j].tool_calls # <<>>

\* C5: in the image-crop graph a rejection with feedback f is followed by
\* addRejectionFeedback, which appends exactly one human entry whose text
\* contains f, then by llmCall, whose system directive contains f; END is
\* only reached right after a further approver step, and an approval ends
\* the run at END with a cropped image and status approved.
C5_Step ==
    graph = "crop" =>
        /\ pc = "routeAfterApprover" /\ approval.status = "rejected"
              => pc' = "addRejectionFeedback"
        /\ pc = "addRejectionFeedback" =>
              /\ pc' = "llmCall"
              /\ Len(messages') = Len(messages) + 1
              /\ IsPrefix(messages, messages')
              /\ messages'[Len(messages')].type = "human"
              /\ Contains(messages'[Len(messages')].content, approval.feedback[1])
        /\ pc = "llmCall" /\ LastStep = "addRejectionFeedback"
              => Contains(lastDirective', approval.feedback[1])
        /\ pc' = END =>
              /\ Len(trace') >= 2
              /\ trace'[Len(trace') - 1] = "approver"
        /\ pc = "routeAfterApprover" /\ approval.status = "approved" =>
              /\ pc' = END
              /\ croppedImageDataUri' # Null
              /\ approval'.status = "approved"

C5_ApprovalLoop == [][C5_Step]_vars

C5_Witness ==
    /\ graph = "crop" /\ pc = END /\ approval.status = "approved"
    /\ croppedImageDataUri # Null
    /\ \E i \in 1..Len(trace) : trace[i] = "addRejectionFeedback"
    /\ \E i \in 1..Len(messages) :
          /\ messages[i].type = "human"
          /\ Contains(messages[i].content, <<"subject cut off">>)

\* C6: in the image-crop graph an approver step on a state without a
\* cropped image sets approval to rejected with the fixed feedback, does not
\* invoke the model and leaves messages and both image fields unchanged.
C6_Step ==
    graph = "crop" /\ pc = "approver" /\ ~Truthy(croppedImageDataUri) =>
        /\ approval' = [status |-> "rejected",
                        feedback |-> Some(<<"No cropped image was produced">>)]
        /\ modelCalls' = modelCalls
        /\ pc' # ERROR
        /\ messages' = messages
        /\ sourceImageDataUri' = sourceImageDataUri
        /\ croppedImageDataUri' = croppedImageDataUri

C6_ShortCircuit == [][C6_Step]_vars

C6_Witness ==
    /\ LastStep = "approver" /\ croppedImageDataUri = Null
    /\ sourceImageDataUri # Null
    /\ approval.status = "rejected"

\* C7: in the image-crop graph every llmCall step resets approval to
\* pending without feedback, toolNode and addRejectionFeedback leave
\* approval unchanged, and only the approver step sets a status of approved
\* or rejected.
C7_Step ==
    graph = "crop" =>
        /\ pc = "llmCall" /\ pc' # ERROR
              => approval' = [status |-> "pending", feedback |-> Null]
        /\ pc \in {"toolNode", "addRejectionFeedback"} => approval' = approval
        /\ approval' # approval /\ approval'.status \in {"approved", "rejected"}
              => pc = "approver"

C7_ApprovalLifecycle == [][C7_Step]_vars

C7_Witness ==
    /\ graph = "crop" /\ LastStep = "llmCall" /\ pc = "routeAfterLLM"
    /\ approval = Pending
    /\ \E i \in 1..Len(trace) : trace[i] = "addRejectionFeedback"

\* the step is an llmCall step whose reply carries tool calls
ReplyWithToolCalls ==
    /\ pc = "llmCall" /\ pc' # ERROR
    /\ HasToolCalls(LastMessage(messages'))

\* the image_url parts of a log
ImagesOf(msgs) ==
    UNION {{msgs[i].images[k] : k \in 1..Len(msgs[i].images)} :
             i \in 1..Len(msgs)}

\* C8 as stated: an llmCall step whose reply carries tool calls changes
\* nothing but messages, to which it appends the reply.
C8_Original_Step ==
    ReplyWithToolCalls =>
        /\ Len(messages') = Len(messages) + 1 /\ IsPrefix(messages, messages')
        /\ sourceImageDataUri' = sourceImageDataUri
        /\ croppedImageDataUri' = croppedImageDataUri
        /\ approval' = approval

C8_Original == [][C8_Original_Step]_vars

\* C8 amended: an llmCall step whose reply carries tool calls appends
\* exactly the reply to messages and leaves croppedImageDataUri unchanged;
\* in the image-crop graph it also sets sourceImageDataUri to the largest
\* image of messages and resets approval to pending; the two other graphs
\* have no further field that changes.
C8_Amended_Step ==
    ReplyWithToolCalls =>
        /\ Len(messages') = Len(messages) + 1 /\ IsPrefix(messages, messages')
        /\ croppedImageDataUri' = croppedImageDataUri
        /\ graph = "crop" =>
              /\ approval' = [status |-> "pending", feedback |-> Null]
              /\ LET candidates == ImagesOf(messages) \cup
                        (IF sourceImageDataUri = Null THEN {}
                         ELSE {sourceImageDataUri[1]}) IN
                 IF candidates = {} THEN sourceImageDataUri' = Null
                 ELSE /\ sourceImageDataUri' # Null
                      /\ sourceImageDataUri'[1] \in candidates
                      /\ \A c \in candidates :
                            Len(c) <= Len(sourceImageDataUri'[1])
        /\ graph # "crop" =>
              /\ sourceImageDataUri' = sourceImageDataUri
              /\ approval' = approval

C8_Amended == [][C8_Amended_Step]_vars

C8_Witness ==
    /\ graph = "crop" /\ LastStep = "llmCall"
    /\ HasToolCalls(LastMessage(messages))
    /\ sourceImageDataUri # Null /\ croppedImageDataUri # Null
    /\ approval = Pending
    /\ \E i \in 1..Len(trace) : trace[i] = "addRejectionFeedback"

\* C9 as stated: a failing tool invocation does not abort the run; only a
\* failing model invocation (llmCall, approver) ends a run with an error.
C9_ToolFailureRecoverable ==
    pc = ERROR => LastStep \in {"llmCall", "approver"}

\* C10: a node step that fails leaves the session state as it was before
\* the step, and no node runs after it.
C10_Step ==
    /\ pc' = ERROR => /\ messages' = messages
                      /\ sourceImageDataUri' = sourceImageDataUri
                      /\ croppedImageDataUri' = croppedImageDataUri
                      /\ approval' = approval
    /\ pc = ERROR => pc' = ERROR /\ trace' = trace

C10_AtomicMerge == [][C10_Step]_vars

C10_Witness ==
    /\ graph = "add" /\ pc = ERROR /\ LastStep = "toolNode"
    /\ LET calls == messages[Len(messages)].tool_calls IN
       /\ Len(calls) = 2
       /\ calls[1].name = "add" /\ AddSchema(calls[1].args)
       /\ calls[2].name = "multiply"

\* the number of tool-call requests carried by the entries of a log
RECURSIVE CountRequests(_)
CountRequests(msgs) ==
    IF msgs = <<>> THEN 0
    ELSE Len(Head(msgs).tool_calls) + CountRequests(Tail(msgs))

\* the assistant entries of a log that carry tool calls
RepliesWithCalls(msgs) ==
    {i \in 1..Len(msgs) : msgs[i].type = "ai" /\ msgs[i].tool_calls # <<>>}

\* C11: in the two graphs without an evaluation stage, a run whose first k
\* replies carry tool calls and whose (k+1)-th reply is plain text runs
\* llmCall and toolNode alternately k times, ends at END right after the
\* (k+1)-th llmCall with a plain assistant entry last, and its messages has
\* length initial + (k+1) + the number of requests.
C11_RoundTrips ==
    graph \in {"add", "calc"} /\ pc = END =>
        LET k == Cardinality(RepliesWithCalls(messages)) IN
        /\ Len(trace) = 3 * k + 2
        /\ \A r \in 0..k :
              /\ trace[3 * r + 1] = "llmCall"
              /\ trace[3 * r + 2] = "shouldContinue"
              /\ r < k => trace[3 * r + 3] = "toolNode"
        /\ messages[Len(messages)].type = "ai"
        /\ messages[Len(messages)].tool_calls = <<>>
        /\ Len(messages) = 1 + (k + 1) + CountRequests(messages)
        /\ \A i \in RepliesWithCalls(messages) :
              \A n \in 1..Len(messages[i].tool_calls) :
                 /\ messages[i + n].type = "tool"
                 /\ messages[i + n].tool_call_id = messages[i].tool_calls[n].id

C11_Witness ==
    /\ graph = "calc" /\ pc = END /\ Len(messages) = 6
    /\ messages[2].tool_calls # <<>> /\ messages[2].tool_calls[1].name = "add"
    /\ messages[3].content = <<"16">>
    /\ messages[4].tool_calls # <<>> /\ messages[4].tool_calls[1].name = "sqrt"
    /\ messages[5].content = <<"4">>

\* C12: the image-crop script writes the output file only after the run
\* ended with approval.status approved and a cropped image; a run that ends
\* rejected or pending writes no file.
C12_OutputOnlyWhenApproved ==
    /\ outputFile # Null =>
          /\ graph = "crop" /\ pc = "exit"
          /\ approval.status = "approved"
          /\ croppedImageDataUri # Null
    /\ pc = "exit" /\ approval.status \in {"rejected", "pending"}
          => outputFile = Null

C12_Witness ==
    /\ pc = "exit" /\ outputFile # Null /\ approval.status = "approved"
    /\ \E i \in 1..Len(trace) : trace[i] = "approver"

\* C13 as stated: the tool node of the add-only graph, run on a log whose
\* last entry is an assistant entry with requests r_1..r_n, appends exactly
\* n tool-result entries, the i-th carrying the id of r_i; on an empty log,
\* a last entry that is no assistant entry or n = 0 it appends nothing; it
\* raises no error.
C13_Step ==
    graph = "add" /\ pc = "toolNode" =>
        LET lastMessage == LastMessage(messages)
            calls == IF lastMessage # Null /\ lastMessage[1].type = "ai"
                     THEN lastMessage[1].tool_calls ELSE <<>>
        IN /\ pc' # ERROR
           /\ IsPrefix(messages, messages')
           /\ Len(messages') = Len(messages) + Len(calls)
           /\ \A i \in 1..Len(calls) :
                 /\ messages'[Len(messages) + i].type = "tool"
                 /\ messages'[Len(messages) + i].tool_call_id = calls[i].id

C13_ToolNodeAnswersEachRequest == [][C13_Step]_vars

\* the entries a step appended to the log
AppendedBy(before, after) == SubSeq(after, Len(before) + 1, Len(after))

\* C15: in the image-crop graph a toolNode step sets croppedImageDataUri to
\* the content of the first tool-result entry of the step that begins with
\* "data:image/" and keeps its value when the step has no such entry; no
\* step changes a non-null croppedImageDataUri to null.
C15_Step ==
    /\ graph = "crop" /\ pc = "toolNode" /\ pc' # ERROR =>
          LET results == AppendedBy(messages, messages')
              hits == {i \in 1..Len(results) :
                          /\ results[i].content # <<>>
                          /\ results[i].content[1] = "data:image/"}
          IN IF hits = {} THEN croppedImageDataUri' = croppedImageDataUri
             ELSE LET first == CHOOSE i \in hits : \A j \in hits : i <= j
                  IN croppedImageDataUri' = Some(results[first].content)
    /\ croppedImageDataUri # Null => croppedImageDataUri' # Null

C15_CropExtraction == [][C15_Step]_vars

C15_Witness ==
    /\ graph = "crop" /\ LastStep = "toolNode" /\ Len(messages) >= 4
    /\ LET a == messages[Len(messages) - 1]
           b == messages[Len(messages)]
       IN /\ a.type = "tool" /\ b.type = "tool"
          /\ startsWith(a.content, DataImage)
          /\ startsWith(b.content, DataImage)
          /\ a.content # b.content
          /\ croppedImageDataUri = Some(a.content)

\* the number of rejections the run has gone through
Rejections ==
    Cardinality({i \in 1..Len(trace) : trace[i] = "addRejectionFeedback"})

\* C16: the approval loop has no retry bound: whatever the number of
\* earlier rejections, a rejection sends the run to addRejectionFeedback
\* and on to llmCall, never to END, and the run is at END only when an
\* approver step has yielded approved.
C16_Step ==
    graph = "crop" =>
        /\ pc = "routeAfterApprover" /\ approval.status = "rejected" =>
              /\ pc' = "addRejectionFeedback"
              /\ Rejections' = Rejections
        /\ pc = "addRejectionFeedback" =>
              /\ pc' = "llmCall"
              /\ Rejections' = Rejections + 1
        /\ pc' = END =>
              /\ approval'.status = "approved"
              /\ \E i \in 1..Len(trace) : trace[i] = "approver"

C16_UnboundedRetries == [][C16_Step]_vars

C16_Witness ==
    /\ graph = "crop" /\ Rejections = MaxLLMCalls
    /\ pc = "llmCall" /\ approval.status = "rejected"
    /\ croppedImageDataUri # Null

\* C17: in the image-crop graph approval.status = approved implies that
\* croppedImageDataUri and sourceImageDataUri are both non-null.
C17_ApprovedHasImages ==
    graph = "crop" /\ approval.status = "approved" =>
        /\ croppedImageDataUri # Null
        /\ sourceImageDataUri # Null

C17_Witness ==
    /\ graph = "crop" /\ LastStep = "approver"
    /\ approval.status = "approved"
    /\ sourceImageDataUri = Some(Kettle)

\* C18: in the image-crop graph a run is at END only right after
\* routeAfterApprover and with approval.status = approved; routeAfterLLM
\* never returns END and routeAfterApprover never sees a status other than
\* approved or rejected.
C18_EndOnlyApproved ==
    graph = "crop" =>
        /\ LastStep = "routeAfterLLM" => pc \in {"toolNode", "approver"}
        /\ LastStep = "routeAfterApprover"
              => approval.status \in {"approved", "rejected"}
        /\ pc = END =>
              /\ LastStep = "routeAfterApprover"
              /\ trace[Len(trace) - 1] = "approver"
              /\ approval.status = "approved"
        /\ pc = "exit" => approval.status = "approved"

C18_Witness ==
    /\ graph = "crop" /\ pc = "exit" /\ approval.status = "approved"
    /\ trace[Len(trace) - 1] = "routeAfterApprover"
    /\ \E i \in 1..Len(trace) : trace[i] = "routeAfterLLM"

\* the tool-result entries that follow the latest assistant entry
RECURSIVE ResultsOfLastAttempt(_)
ResultsOfLastAttempt(msgs) ==
    IF msgs = <<>> \/ msgs[Len(msgs)].type # "tool" THEN {}
    ELSE {msgs[Len(msgs)].content}
         \cup ResultsOfLastAttempt(SubSeq(msgs, 1, Len(msgs) - 1))

\* C19 as stated: whenever the approver evaluates a cropped image (both
\* images present, so that it invokes the model), that image was produced by
\* a toolNode step that ran after the most recent llmCall step.
C19_FreshCropEvaluated ==
    /\ graph = "crop" /\ pc = "approver"
    /\ Truthy(croppedImageDataUri) /\ Truthy(sourceImageDataUri)
    => /\ LastStep = "toolNode"
       /\ croppedImageDataUri[1] \in ResultsOfLastAttempt(messages)

====
